---- MODULE Spec2Model ----
(***************************************************************************)
(* Model of scraper/scrape_prices.py: the security camera price scraper.   *)
(*                                                                         *)
(* Three specifications share this module:                                 *)
(*   SpecParse  parse_price applied to bounded price texts                 *)
(*   SpecFetch  fetch_price applied to bounded responses                   *)
(*   Spec       main(): load config, scrape, load existing, merge, save,   *)
(*              repeated over runs with cameras.json edited between runs   *)
(*                                                                         *)
(* Python values: None, the empty string and a missing attribute are all   *)
(* falsy and are all written <<>> here; a str is a sequence of one         *)
(* character strings; a float parsed from a decimal numeral is the pair    *)
(* <<n, d>> standing for n / 10^d with trailing zeros of the fraction      *)
(* removed, so equal numbers are equal pairs.                              *)
(***************************************************************************)
EXTENDS Integers, Sequences, FiniteSets, TLC

VARIABLES
    ptext, presult, ppc,                 \* parse_price: argument, result, position
    fresponse, fselector, fresult, fpc,  \* fetch_price: response, selector, result, position
    outputFile,                          \* data/prices.json
    pc,                                  \* position of main()
    config,                              \* main: config
    idx,                                 \* scrape_all_cameras: loop position
    results,                             \* scrape_all_cameras: results
    existing,                            \* main: existing
    cameras,                             \* main: cameras after merge_prices
    prevFile,                            \* history: prices.json when the run started
    writes,                              \* history: writes of prices.json in this run
    attempted,                           \* history: ids fetch_price was called for in this run
    everPriced                           \* history: ids that had a price in a snapshot written so far

parseVars == <<ptext, presult, ppc>>
fetchVars == <<fresponse, fselector, fresult, fpc>>
runVars == <<outputFile, pc, config, idx, results, existing,
             cameras, prevFile, writes, attempted, everPriced>>
vars == <<ptext, presult, ppc, fresponse, fselector, fresult, fpc,
          outputFile, pc, config, idx, results, existing,
          cameras, prevFile, writes, attempted, everPriced>>

\* Bounds of the model
MaxLen == 3
MaxElements == 2

None == <<>>

Get(d, key, default) == IF key \in DOMAIN d THEN d[key] ELSE default

RECURSIVE Pow10(_)
Pow10(k) == IF k = 0 THEN 1 ELSE 10 * Pow10(k - 1)

Range(s) == {s[i] : i \in DOMAIN s}

(***************************************************************************)
(* parse_price                                                             *)
(***************************************************************************)
Digits == <<"0", "1", "2", "3", "4", "5", "6", "7", "8", "9">>

IsDigit(c) == c \in Range(Digits)

DigitVal(c) == (CHOOSE i \in DOMAIN Digits : Digits[i] = c) - 1

IsDigitOrDot(c) == IsDigit(c) \/ c = "."

IsDigitOnly(c) == IsDigit(c)

\* re.sub(r'[^\d.]', '', price_text)
Cleaned(price_text) == SelectSeq(price_text, IsDigitOrDot)

RECURSIVE DigitsToInt(_)
DigitsToInt(s) ==
    IF s = <<>> THEN 0
    ELSE 10 * DigitsToInt(SubSeq(s, 1, Len(s) - 1)) + DigitVal(s[Len(s)])

RECURSIVE Normalize(_, _)
Normalize(n, d) ==
    IF d > 0 /\ n % 10 = 0 THEN Normalize(n \div 10, d - 1) ELSE <<n, d>>

\* float(cleaned): a ValueError unless cleaned is digits with at most one "."
\* and at least one digit
Float(s) ==
    LET dots == {i \in DOMAIN s : s[i] = "."}
        digs == SelectSeq(s, IsDigitOnly)
    IN  IF Cardinality(dots) > 1 \/ digs = <<>>
        THEN [raised |-> TRUE, value |-> None]
        ELSE LET dot == IF dots = {} THEN Len(s) ELSE CHOOSE i \in dots : TRUE
             IN  [raised |-> FALSE,
                  value |-> Normalize(DigitsToInt(digs), Len(s) - dot)]

parse_price_no_dot(price_text) ==
    IF price_text = <<>> THEN None
    ELSE LET r == Float(SelectSeq(price_text, IsDigitOnly))
         IN  IF r.raised THEN None ELSE r.value

parse_price(price_text) ==
    IF price_text = <<>> THEN None
    ELSE LET r == Float(Cleaned(price_text))
         IN  IF r.raised THEN None ELSE r.value

(***************************************************************************)
(* fetch_price                                                             *)
(***************************************************************************)
\* A response is [kind |-> "error"] (requests.get or raise_for_status raised:
\* timeout, transport error, non-2xx status) or [kind |-> "ok", doc |-> d],
\* d the elements of the parsed page in document order.  An element is
\* [tag, class, id, itemprop, content, text].

IsSpace(c) == c = " "

RECURSIVE StripLeft(_)
StripLeft(s) == IF s # <<>> /\ IsSpace(s[1]) THEN StripLeft(Tail(s)) ELSE s

RECURSIVE StripRight(_)
StripRight(s) ==
    IF s # <<>> /\ IsSpace(s[Len(s)]) THEN StripRight(SubSeq(s, 1, Len(s) - 1)) ELSE s

\* element.get_text(strip=True)
get_text(element) == StripRight(StripLeft(element.text))

\* the class, id values of the model that contain the substring "price"
ContainsPrice(v) == v \in {"price", "product-price", "current-price"}

\* does the CSS selector match the element
Matches(selector, e) ==
    CASE selector = "[class*=\"price\"]" -> ContainsPrice(e.class)
      [] selector = "[id*=\"price\"]" -> ContainsPrice(e.id)
      [] selector = ".product-price" -> e.class = "product-price"
      [] selector = ".current-price" -> e.class = "current-price"
      [] selector = "span[itemprop=\"price\"]" -> e.tag = "span" /\ e.itemprop = "price"
      [] selector = "meta[itemprop=\"price\"]" -> e.tag = "meta" /\ e.itemprop = "price"
      [] selector = ".price" -> e.class = "price"
      [] selector = ".sale" -> e.class = "sale"
      [] OTHER -> FALSE

\* soup.select_one(selector): <<e>> for the first match e in document order,
\* <<>> (None) if there is none
select_one(doc, selector) ==
    LET hits == {i \in DOMAIN doc : Matches(selector, doc[i])}
    IN  IF hits = {} THEN None
        ELSE <<doc[CHOOSE i \in hits : \A j \in hits : i <= j]>>

fallback_selectors ==
    << "[class*=\"price\"]",
       "[id*=\"price\"]",
       ".product-price",
       ".current-price",
       "span[itemprop=\"price\"]",
       "meta[itemprop=\"price\"]" >>

\* Python truthiness of a price: None and 0.0 are falsy
Truthy(price) == price # None /\ price[1] # 0

\* the loop over fallback_selectors, from position k on
RECURSIVE FallbackLoop(_, _)
FallbackLoop(doc, k) ==
    IF k > Len(fallback_selectors) THEN None
    ELSE LET element == select_one(doc, fallback_selectors[k])
         IN  IF element = None THEN FallbackLoop(doc, k + 1)
             ELSE IF element[1].content # <<>> THEN parse_price(element[1].content)
             ELSE LET price == parse_price(get_text(element[1]))
                  IN  IF Truthy(price) THEN price ELSE FallbackLoop(doc, k + 1)

\* requests.RequestException and any other Exception are caught: None
fetch_price(response, price_selector) ==
    IF response.kind = "error" THEN None
    ELSE LET price_element == select_one(response.doc, price_selector)
         IN  IF price_element # None
             THEN parse_price(get_text(price_element[1]))
             ELSE FallbackLoop(response.doc, 1)

(***************************************************************************)
(* scrape_all_cameras, load_existing_prices, merge_prices, save_prices     *)
(***************************************************************************)
\* camera.get("enabled", True)
IsEnabledAlways(camera) == TRUE

IsEnabled(camera) == Get(camera, "enabled", TRUE)

\* the dict built for one camera, lines 150-159
Result(camera, price) ==
    [id |-> camera.id,
     name |-> camera.name,
     model |-> camera.model,
     category |-> camera.category,
     price |-> price,
     retailer |-> Get(camera, "retailer", "Unknown"),
     url |-> camera.url,
     description |-> Get(camera, "description", "")]

\* {c["id"]: c.get("price") for c in existing_data.get("cameras", [])}:
\* a later entry with the same id replaces an earlier one
existing_prices(existing_data) ==
    LET cs == Get(existing_data, "cameras", <<>>)
    IN  [id \in {cs[j].id : j \in DOMAIN cs} |->
            LET last == CHOOSE j \in DOMAIN cs :
                            /\ cs[j].id = id
                            /\ \A k \in DOMAIN cs : cs[k].id = id => k <= j
            IN  Get(cs[last], "price", None)]

merge_prices_no_fallback(new_cameras, existing_data) == new_cameras

merge_prices_first_reading(new_cameras, existing_data) ==
    LET cs == Get(existing_data, "cameras", <<>>)
    IN  [i \in DOMAIN new_cameras |->
            LET camera == new_cameras[i]
            IN  IF camera.price = None /\ cs # <<>>
                THEN [camera EXCEPT !.price = Get(cs[1], "price", None)]
                ELSE camera]

merge_prices_whole_record(new_cameras, existing_data) ==
    LET cs == Get(existing_data, "cameras", <<>>)
    IN  [i \in DOMAIN new_cameras |->
            LET camera == new_cameras[i]
                old == {j \in DOMAIN cs : cs[j].id = camera.id}
            IN  IF camera.price = None /\ old # {}
                THEN cs[CHOOSE j \in old : TRUE]
                ELSE camera]

merge_prices(new_cameras, existing_data) ==
    LET prices == existing_prices(existing_data)
    IN  [i \in DOMAIN new_cameras |->
            LET camera == new_cameras[i]
            IN  IF camera.price = None /\ camera.id \in DOMAIN prices
                THEN [camera EXCEPT !.price = prices[camera.id]]
                ELSE camera]

(***************************************************************************)
(* Inputs                                                                  *)
(***************************************************************************)
\* price texts for parse_price: every text of at most MaxLen characters of
\* Alphabet, and the documented examples
Alphabet == {"$", ",", ".", "0", "1", "5"}

RECURSIVE TextsUpTo(_)
TextsUpTo(n) ==
    IF n = 0 THEN {<<>>}
    ELSE LET shorter == TextsUpTo(n - 1)
         IN  shorter \cup {Append(t, c) : t \in shorter, c \in Alphabet}

ExampleDollar == <<"$", "1", "4", "9", ".", "9", "9">>
ExampleUsdFirst == <<"U", "S", "D", " ", "1", "4", "9", ".", "9", "9">>
ExampleUsdLast == <<"1", "4", "9", ".", "9", "9", " ", "U", "S", "D">>
ExampleThousands == <<"$", "1", ",", "2", "9", "9", ".", "9", "9">>
ExampleWords == <<"N", "/", "A">>

PriceTexts ==
    TextsUpTo(MaxLen)
        \cup {ExampleDollar, ExampleUsdFirst, ExampleUsdLast, ExampleThousands, ExampleWords}

\* page elements for fetch_price
Element(tag, class, id, itemprop, content, text) ==
    [tag |-> tag, class |-> class, id |-> id, itemprop |-> itemprop,
     content |-> content, text |-> text]

Text249 == <<"$", "2", "4", "9", ".", "9", "9">>
Text229 == <<" ", "$", "2", "2", "9", ".", "9", "9", " ">>
TextZero == <<"0">>

ElementTexts == {Text229, TextZero, ExampleWords}
ElementContents == {<<>>, Text249, ExampleWords}

Elements ==
    {Element(k[1], k[2], k[3], k[4], c, t) :
        k \in {<<"div", "price", "", "">>,
               <<"div", "sale", "", "">>,
               <<"div", "product-price", "", "">>,
               <<"span", "", "price", "">>,
               <<"span", "", "", "price">>,
               <<"meta", "", "", "price">>},
        c \in ElementContents, t \in ElementTexts}

RECURSIVE DocsUpTo(_)
DocsUpTo(n) ==
    IF n = 0 THEN {<<>>}
    ELSE LET shorter == DocsUpTo(n - 1)
         IN  shorter \cup {Append(d, e) : d \in shorter, e \in Elements}

Ok(doc) == [kind |-> "ok", doc |-> doc]
Failed == [kind |-> "error"]

FetchResponses == {Failed} \cup {Ok(d) : d \in DocsUpTo(MaxElements)}
PrimarySelectors == {".price", ".sale"}

\* responses met by a run: a failed request, a page without a price, a page
\* with a price under class "price", a page with a price under class "sale"
RunResponses ==
    {Failed,
     Ok(<<>>),
     Ok(<<Element("div", "price", "", "", <<>>, Text249)>>),
     Ok(<<Element("div", "sale", "", "", <<>>, Text229)>>)}

\* targets of cameras.json: two editions of the editable fields; the second
\* leaves out every optional key
Ids == {"cam-a", "cam-b"}

TargetsOf(id) ==
    {[id |-> id, name |-> "Cam", model |-> "M1", category |-> "wired",
      url |-> "https://shop/1", retailer |-> "Shop", description |-> "first",
      price_selector |-> ".sale", enabled |-> e] : e \in BOOLEAN}
    \cup
    {[id |-> id, name |-> "Cam II", model |-> "M2", category |-> "ptz",
      url |-> "https://store/2"],
     [id |-> id, name |-> "Cam II", model |-> "M2", category |-> "ptz",
      url |-> "https://store/2", enabled |-> FALSE]}

Targets == UNION {TargetsOf(id) : id \in Ids}

\* sequences of targets with pairwise distinct ids
RECURSIVE TargetLists(_)
TargetLists(n) ==
    IF n = 0 THEN {<<>>}
    ELSE LET shorter == TargetLists(n - 1)
         IN  shorter \cup
             {Append(l, t) : l \in shorter,
                             t \in Targets}

DistinctIds(l) == \A i, j \in DOMAIN l : l[i].id = l[j].id => i = j

\* cameras.json: not loadable, an object without "cameras", or a list of targets
ConfigFiles ==
    {[kind |-> "invalid"], [kind |-> "json", value |-> [version |-> 1]]}
    \cup {[kind |-> "json", value |-> [cameras |-> l]] :
            l \in {m \in TargetLists(Cardinality(Ids)) : DistinctIds(m)}}

\* prices.json before the first run: absent, not JSON, not readable
\* (permissions, not UTF-8), or JSON that is not an object
InitialOutputFiles ==
    {[kind |-> "missing"], [kind |-> "corrupt"], [kind |-> "unreadable"],
     [kind |-> "not_object"]}

(***************************************************************************)
(* SpecParse: parse_price on every price text                              *)
(***************************************************************************)
RunIdle ==
    /\ outputFile = [kind |-> "missing"]
    /\ pc = "idle"
    /\ config = <<>>
    /\ idx = 1
    /\ results = <<>>
    /\ existing = [type |-> "dict", cameras |-> <<>>]
    /\ cameras = <<>>
    /\ prevFile = [kind |-> "missing"]
    /\ writes = 0
    /\ attempted = {}
    /\ everPriced = {}

ParseIdle == ptext = <<>> /\ presult = None /\ ppc = "idle"

FetchIdle ==
    fresponse = Failed /\ fselector = ".price" /\ fresult = None /\ fpc = "idle"

InitParse ==
    /\ ptext \in PriceTexts
    /\ presult = None
    /\ ppc = "call"
    /\ FetchIdle
    /\ RunIdle

ParsePrice ==
    /\ ppc = "call"
    /\ presult' = parse_price(ptext)
    /\ ppc' = "returned"
    /\ UNCHANGED <<ptext, fetchVars, runVars>>

NextParse == ParsePrice

SpecParse == InitParse /\ [][NextParse]_vars

(***************************************************************************)
(* SpecFetch: fetch_price on every response and primary selector           *)
(***************************************************************************)
InitFetch ==
    /\ fresponse \in FetchResponses
    /\ fselector \in PrimarySelectors
    /\ fresult = None
    /\ fpc = "call"
    /\ ParseIdle
    /\ RunIdle

FetchPrice ==
    /\ fpc = "call"
    /\ fresult' = fetch_price(fresponse, fselector)
    /\ fpc' = "returned"
    /\ UNCHANGED <<fresponse, fselector, parseVars, runVars>>

NextFetch == FetchPrice

SpecFetch == InitFetch /\ [][NextFetch]_vars

(***************************************************************************)
(* Spec: runs of main()                                                    *)
(***************************************************************************)
Ended == {"done", "crashed", "config_error", "killed"}
Running == {"scrape", "load_existing", "merge", "save"}

Init ==
    /\ outputFile \in InitialOutputFiles
    /\ pc = "idle"
    /\ config = <<>>
    /\ idx = 1
    /\ results = <<>>
    /\ existing = [type |-> "dict", cameras |-> <<>>]
    /\ cameras = <<>>
    /\ prevFile = outputFile
    /\ writes = 0
    /\ attempted = {}
    /\ everPriced = {}
    /\ ParseIdle
    /\ FetchIdle

\* config.get("cameras", [])
ConfigCameras == Get(config, "cameras", <<>>)

\* main, line 220: load_camera_config() reads cameras.json as it stands when
\* the run starts (it is edited between runs); an exception ends the process
\* before anything else happens
LoadConfig ==
    /\ pc \in {"idle"} \cup Ended
    /\ prevFile' = outputFile
    /\ writes' = 0
    /\ attempted' = {}
    /\ idx' = 1
    /\ results' = <<>>
    /\ cameras' = <<>>
    /\ existing' = [type |-> "dict", cameras |-> <<>>]
    /\ \E configFile \in ConfigFiles :
          IF configFile.kind = "invalid"
          THEN /\ pc' = "config_error"
               /\ config' = <<>>
          ELSE /\ config' = configFile.value
               /\ pc' = IF Len(Get(configFile.value, "cameras", <<>>)) = 0
                        THEN "load_existing" ELSE "scrape"
    /\ UNCHANGED <<outputFile, everPriced, parseVars, fetchVars>>

\* one iteration of the loop of scrape_all_cameras, lines 141-166
ScrapeCameraSaving ==
    /\ pc = "scrape"
    /\ LET camera == ConfigCameras[idx]
       IN  /\ \E response \in RunResponses :
                results' = Append(results,
                    Result(camera, fetch_price(response,
                                       Get(camera, "price_selector", ".price"))))
           /\ attempted' = attempted \cup {camera.id}
    /\ outputFile' = [kind |-> "json", value |-> [cameras |-> results']]
    /\ writes' = writes + 1
    /\ idx' = idx + 1
    /\ pc' = IF idx' > Len(ConfigCameras) THEN "load_existing" ELSE "scrape"
    /\ UNCHANGED <<config, existing, cameras, prevFile,
                   everPriced, parseVars, fetchVars>>

ScrapeCamera ==
    /\ pc = "scrape"
    /\ LET camera == ConfigCameras[idx]
       IN  IF ~IsEnabled(camera)
           THEN UNCHANGED <<results, attempted>>
           ELSE /\ \E response \in RunResponses :
                     results' = Append(results,
                         Result(camera, fetch_price(response,
                                            Get(camera, "price_selector", ".price"))))
                /\ attempted' = attempted \cup {camera.id}
    /\ idx' = idx + 1
    /\ pc' = IF idx' > Len(ConfigCameras) THEN "load_existing" ELSE "scrape"
    /\ UNCHANGED <<outputFile, config, existing, cameras, prevFile,
                   writes, everPriced, parseVars, fetchVars>>

\* load_existing_prices, lines 171-177: FileNotFoundError and JSONDecodeError
\* give the empty snapshot; any other exception leaves main
LoadExisting ==
    /\ pc = "load_existing"
    /\ CASE outputFile.kind \in {"missing", "corrupt"} ->
                existing' = [type |-> "dict", cameras |-> <<>>] /\ pc' = "merge"
         [] outputFile.kind = "json" ->
                /\ existing' = [type |-> "dict", cameras |-> outputFile.value.cameras]
                /\ pc' = "merge"
         [] outputFile.kind = "not_object" ->
                existing' = [type |-> "list"] /\ pc' = "merge"
         [] OTHER ->
                pc' = "crashed" /\ UNCHANGED existing
    /\ UNCHANGED <<outputFile, config, idx, results, cameras,
                   prevFile, writes, attempted, everPriced, parseVars, fetchVars>>

\* main, line 231: merge_prices(cameras, existing); existing_data.get raises
\* on a value that is not a dict
MergePrices ==
    /\ pc = "merge"
    /\ IF existing.type = "dict"
       THEN cameras' = merge_prices(results, existing) /\ pc' = "save"
       ELSE pc' = "crashed" /\ UNCHANGED cameras
    /\ UNCHANGED <<outputFile, config, idx, results, existing,
                   prevFile, writes, attempted, everPriced, parseVars, fetchVars>>

\* save_prices, lines 195-208 (the last_updated stamp is written and never
\* read back by the program; it is left out)
SavePrices ==
    /\ pc = "save"
    /\ outputFile' = [kind |-> "json", value |-> [cameras |-> cameras]]
    /\ writes' = writes + 1
    /\ everPriced' = everPriced \cup
            {cameras[i].id : i \in {j \in DOMAIN cameras : cameras[j].price # None}}
    /\ pc' = "done"
    /\ UNCHANGED <<config, idx, results, existing, cameras,
                   prevFile, attempted, parseVars, fetchVars>>

\* the process is terminated from outside while it runs
Terminate ==
    /\ pc \in Running
    /\ pc' = "killed"
    /\ UNCHANGED <<outputFile, config, idx, results, existing,
                   cameras, prevFile, writes, attempted, everPriced,
                   parseVars, fetchVars>>

Next ==
    \/ LoadConfig
    \/ ScrapeCamera
    \/ LoadExisting
    \/ MergePrices
    \/ SavePrices
    \/ Terminate

Spec == Init /\ [][Next]_vars

(***************************************************************************)
(* Properties                                                              *)
(***************************************************************************)
RECURSIVE SumOver(_, _)
SumOver(S, f) ==
    IF S = {} THEN 0
    ELSE LET x == CHOOSE y \in S : TRUE IN f[x] + SumOver(S \ {x}, f)

DigitAt(t) == {i \in DOMAIN t : IsDigit(t[i])}
DotAt(t) == {i \in DOMAIN t : t[i] = "."}

\* the text, with everything but digits and points deleted, is a decimal numeral
IsNumeral(t) == Cardinality(DotAt(t)) <= 1 /\ DigitAt(t) # {}

\* the digits right of the point
FractionAt(t) == {i \in DigitAt(t) : \E j \in DotAt(t) : j < i}

\* 10^Cardinality(FractionAt(t)) times the number the numeral denotes, digit
\* by digit: each digit weighs 10^(the digits right of it)
ScaledValue(t) ==
    LET weight == [i \in DigitAt(t) |->
            DigitVal(t[i]) * Pow10(Cardinality({j \in DigitAt(t) : j > i}))]
    IN  SumOver(DigitAt(t), weight)

\* C7: parse_price returns the number denoted by the text once every
\* character other than a digit or a point is deleted, and None when the
\* text is empty or what remains is not a decimal numeral; the documented
\* examples give 149.99 and 1299.99.
C7_ParsePriceValue ==
    ppc = "returned" =>
        /\ IF IsNumeral(ptext)
           THEN /\ presult # None
                /\ presult[2] <= Cardinality(FractionAt(ptext))
                /\ presult[1] * Pow10(Cardinality(FractionAt(ptext)) - presult[2])
                      = ScaledValue(ptext)
           ELSE presult = None
        /\ ptext \in {ExampleDollar, ExampleUsdFirst, ExampleUsdLast}
              => presult = <<14999, 2>>
        /\ ptext = ExampleThousands => presult = <<129999, 2>>
        /\ ptext \in {<<>>, ExampleWords} => presult = None

C7_Witness ==
    ppc = "returned" /\ ptext = ExampleThousands /\ presult = <<129999, 2>>

\* the text a fallback element offers: its content attribute when it has
\* one, its stripped text otherwise
OfferedText(e) == IF e.content # <<>> THEN e.content ELSE get_text(e)

\* the fallback selectors that match an element whose offered text parses
ParseableFallbacks(doc) ==
    {k \in DOMAIN fallback_selectors :
        LET m == select_one(doc, fallback_selectors[k])
        IN  m # None /\ parse_price(OfferedText(m[1])) # None}

FirstParseableFallback(doc) ==
    IF ParseableFallbacks(doc) = {} THEN None
    ELSE LET k == CHOOSE i \in ParseableFallbacks(doc) :
                      \A j \in ParseableFallbacks(doc) : i <= j
         IN  parse_price(OfferedText(select_one(doc, fallback_selectors[k])[1]))

\* C6: when the primary selector matches no element, fetch_price returns
\* the price of the first fallback selector, in declared order, whose
\* element yields a parseable price, skipping fallbacks that fail to parse,
\* and None only if no fallback parses.
C6_FirstParseableFallbackWins ==
    (/\ fpc = "returned"
     /\ fresponse.kind = "ok"
     /\ select_one(fresponse.doc, fselector) = None)
        => fresult = FirstParseableFallback(fresponse.doc)

\* C9: when the primary selector matches an element whose text does not
\* parse, fetch_price goes on to the fallback selectors and returns the
\* first that yields a parseable price.
C9_UnparseablePrimaryFallsThrough ==
    (/\ fpc = "returned"
     /\ fresponse.kind = "ok"
     /\ select_one(fresponse.doc, fselector) # None
     /\ parse_price(get_text(select_one(fresponse.doc, fselector)[1])) = None)
        => fresult = FirstParseableFallback(fresponse.doc)

\* a target is enabled unless cameras.json says "enabled": false
EnabledTarget(t) == ~("enabled" \in DOMAIN t /\ t.enabled = FALSE)

EnabledTargets == SelectSeq(ConfigCameras, EnabledTarget)

\* the readings of the previous snapshot as the run found it; none when
\* prices.json held no snapshot
PreviousReadings == IF prevFile.kind = "json" THEN prevFile.value.cameras ELSE <<>>

PreviousPrices(id) ==
    {PreviousReadings[j].price : j \in {k \in DOMAIN PreviousReadings :
        PreviousReadings[k].id = id /\ PreviousReadings[k].price # None}}

Merged == pc \in {"save", "done"}

\* C1: after merge_prices a reading whose fresh price is None and whose id
\* has a non-null price in the previous snapshot carries that price; every
\* other reading carries its fresh price, None included.
C1_MergeRule ==
    Merged =>
        /\ Len(cameras) = Len(results)
        /\ \A i \in DOMAIN results :
              IF results[i].price = None /\ PreviousPrices(results[i].id) # {}
              THEN cameras[i].price \in PreviousPrices(results[i].id)
              ELSE cameras[i].price = results[i].price

C1_Witness ==
    /\ Merged
    /\ \E i \in DOMAIN results :
          results[i].price = None /\ cameras[i].price = <<22999, 2>>
    /\ \E i \in DOMAIN results :
          results[i].price = None /\ cameras[i].price = None

\* C2 as stated: every reading of a written snapshot has a price unless its
\* target never had one in any snapshot written by an earlier run.
C2_PricedUnlessNeverPriced ==
    pc = "done" =>
        \A i \in DOMAIN outputFile.value.cameras :
            \/ outputFile.value.cameras[i].price # None
            \/ outputFile.value.cameras[i].id \notin everPriced

\* C2 amended: every reading of a written snapshot has a price unless the
\* snapshot the run found in prices.json holds no priced reading of its target.
C2_PricedUnlessNotInPrevious ==
    pc = "done" =>
        \A i \in DOMAIN outputFile.value.cameras :
            \/ outputFile.value.cameras[i].price # None
            \/ PreviousPrices(outputFile.value.cameras[i].id) = {}

C2_Witness ==
    /\ pc = "done"
    /\ prevFile.kind = "json"
    /\ \E i \in DOMAIN outputFile.value.cameras :
          /\ outputFile.value.cameras[i].price = None
          /\ outputFile.value.cameras[i].id \in everPriced
    /\ \E i \in DOMAIN outputFile.value.cameras :
          /\ results[i].price = None
          /\ outputFile.value.cameras[i].price # None

\* C3: the written snapshot holds one reading per enabled target of the
\* configuration, in configuration order, and nothing else.
C3_SnapshotIsEnabledTargets ==
    pc = "done" =>
        /\ Len(outputFile.value.cameras) = Len(EnabledTargets)
        /\ \A i \in DOMAIN EnabledTargets :
              outputFile.value.cameras[i].id = EnabledTargets[i].id

C3_Witness ==
    /\ pc = "done"
    /\ Len(EnabledTargets) = 1
    /\ \E j \in DOMAIN PreviousReadings, k \in DOMAIN ConfigCameras :
          /\ ConfigCameras[k].id = PreviousReadings[j].id
          /\ ~EnabledTarget(ConfigCameras[k])
          /\ PreviousReadings[j].price # None
          /\ \A i \in DOMAIN outputFile.value.cameras :
                outputFile.value.cameras[i].id # PreviousReadings[j].id

\* C4: once the configuration is loaded the run is never aborted: it
\* attempts every enabled target and goes on to the write.
C4_RunNeverAborts ==
    /\ pc # "crashed"
    /\ pc \in {"load_existing", "merge", "save", "done"}
          => attempted = {EnabledTargets[i].id : i \in DOMAIN EnabledTargets}

\* C5: a previous snapshot file that is missing, unreadable or corrupt does
\* not stop the run, and the merge keeps every fresh price as it is.
C5_BadPreviousFileTolerated ==
    prevFile.kind \in {"missing", "corrupt", "unreadable", "not_object"} =>
        /\ pc # "crashed"
        /\ Merged => cameras = results

\* C8: every field of a merged reading other than the price is the value
\* built from the current configuration of its target.
C8_MergeKeepsConfigFields ==
    Merged =>
        /\ Len(cameras) = Len(EnabledTargets)
        /\ \A i \in DOMAIN cameras :
              LET t == EnabledTargets[i]
              IN  /\ cameras[i].id = t.id
                  /\ cameras[i].name = t.name
                  /\ cameras[i].model = t.model
                  /\ cameras[i].category = t.category
                  /\ cameras[i].url = t.url
                  /\ cameras[i].retailer =
                        (IF "retailer" \in DOMAIN t THEN t.retailer ELSE "Unknown")
                  /\ cameras[i].description =
                        (IF "description" \in DOMAIN t THEN t.description ELSE "")

C8_Witness ==
    /\ Merged
    /\ \E i \in DOMAIN cameras, j \in DOMAIN PreviousReadings :
          /\ results[i].price = None
          /\ PreviousReadings[j].id = cameras[i].id
          /\ cameras[i].price = PreviousReadings[j].price
          /\ cameras[i].price # None
          /\ cameras[i].retailer # PreviousReadings[j].retailer
          /\ cameras[i].category # PreviousReadings[j].category

\* C10: a run writes prices.json at most once, only when every enabled
\* target has been processed and the merge is done; until then the file is
\* the previous snapshot, also when the run is terminated.
C10_SingleWriteAtEnd ==
    /\ writes <= 1
    /\ writes = 0 => outputFile = prevFile
    /\ writes = 1 =>
          /\ pc = "done"
          /\ attempted = {EnabledTargets[i].id : i \in DOMAIN EnabledTargets}
          /\ outputFile = [kind |-> "json", value |-> [cameras |-> cameras]]

C10_Witness ==
    /\ pc = "killed"
    /\ results # <<>>
    /\ idx <= Len(ConfigCameras)
    /\ prevFile.kind = "json"
    /\ prevFile.value.cameras # <<>>
    /\ outputFile = prevFile

====
